---- MODULE Spec2Model ----
(***************************************************************************)
(* dashboard01.py: the filter-and-segment pipeline of the Boston grocery   *)
(* store dashboard.  One execution of the script is one step: load (cached)*)
(* -> sidebar filters -> summary metrics -> segmentation -> table / CSV.    *)
(*                                                                         *)
(* Floating-point cells are fixed-point integers in hundredths (Scale), so  *)
(* 2001 is 20.01; cluster codes and index labels are whole numbers.         *)
(* A cell is a record [k, v]: k = "num" (a number v),                       *)
(* k = "nan" (missing), k = "numtext" (text that parses to v) or            *)
(* k = "text" (text that does not parse).  An income_group cell is a pair   *)
(* <<type, text>>.  A frame is [obj, cols, rows]: obj tells which Python    *)
(* object it is (in-place column assignment changes that object only),      *)
(* rows are functions from column names (and "idx", the pandas index        *)
(* label) to cells.                                                         *)
(***************************************************************************)
EXTENDS Integers, Sequences, FiniteSets, TLC

\* Longest spreadsheet read from disk.
MaxRows == 2

\* Resolution of the fixed-point representation of floats (hundredths).
Scale == 10 * 10

\* categorize_gap's threshold (lines 119, 121), in whole units.
SegmentThreshold == 20

Num(x) == [k |-> "num", v |-> x]
NaN == [k |-> "nan", v |-> 0]
NumText(x) == [k |-> "numtext", v |-> x]
Text == [k |-> "text", v |-> 0]

IsNaN(c) == c.k = "nan"

\* income_group values: a string code, a numeric code, or missing.
IncomeStr(s) == <<"str", s>>
IncomeInt(s) == <<"int", s>>
IncomeNaN == <<"nan", "nan">>

\* The columns every spreadsheet has, and the two optional ones.
RequiredCols == {"location_name", "latitude", "longitude", "visit_count",
                 "huff_predicted_visits_scaled", "visits_gap_scaled"}
OptionalCols == {"cluster", "income_group"}

StoreRow(name, lat, vc, huff, gap, cl, inc) ==
    [location_name |-> name, latitude |-> lat, longitude |-> Num(-7106), visit_count |-> vc,
     huff_predicted_visits_scaled |-> huff, visits_gap_scaled |-> gap,
     cluster |-> cl, income_group |-> inc]

\* The spreadsheet rows the model draws from: gaps on and next to both
\* thresholds, integer and non-integer extremes, missing gap / cluster /
\* income_group, and two rows the loader drops.
SheetRows ==
    { StoreRow("A", Num(4235), Num(3000), Num(900), Num(2100), Num(0), IncomeStr("low")),
      StoreRow("B", Num(4236), Num(2800), Num(799), Num(2001), Num(0), IncomeInt("1")),
      StoreRow("C", Num(4237), NumText(2500), Num(500), Num(2000), Num(1), IncomeStr("1")),
      StoreRow("D", Num(4238), Num(500), Num(2500), Num(-2000), Num(0), IncomeInt("1")),
      StoreRow("E", Num(4239), Num(400), Num(2401), Num(-2001), Num(1), IncomeStr("low")),
      StoreRow("F", Num(4240), Num(300), Num(2400), Num(-2100), Num(1), IncomeInt("1")),
      StoreRow("G", Num(4241), Num(1000), Num(800), Text, Num(0), IncomeStr("low")),
      StoreRow("H", Num(4242), Num(2000), Num(0), Num(2000), NaN, IncomeStr("low")),
      StoreRow("I", Num(4243), Num(600), Num(2600), Num(-2000), Num(1), IncomeNaN),
      StoreRow("J", NaN, Num(1000), Num(800), Num(200), Num(0), IncomeStr("low")),
      StoreRow("K", Num(4244), Text, Num(800), Num(200), Num(1), IncomeInt("1")) }

\* The subsets of optional columns a spreadsheet may carry.
ColumnSets == { RequiredCols \cup o : o \in SUBSET OptionalCols }

Restrict(r, cols) == [c \in cols |-> r[c]]

Range(s) == { s[i] : i \in DOMAIN s }

\* pd.read_excel: the sheet's rows with the default RangeIndex 0..n-1.
ReadExcel(sheet, cols) ==
    [obj |-> "loaded", cols |-> cols,
     rows |-> [i \in DOMAIN sheet |->
                 Restrict(sheet[i], cols) @@ ("idx" :> Num(i - 1))]]

Sheets == UNION { [1..n -> SheetRows] : n \in 0..MaxRows }

\* pd.to_numeric(errors='coerce') on one cell.
ToNumeric(c) ==
    CASE c.k = "num" -> c
      [] c.k = "numtext" -> Num(c.v)
      [] OTHER -> NaN

CoerceRow(r) ==
    [c \in DOMAIN r |->
        IF c \in {"visit_count", "huff_predicted_visits_scaled", "visits_gap_scaled"}
        THEN ToNumeric(r[c]) ELSE r[c]]

DropnaSubset == {"latitude", "longitude", "visit_count", "huff_predicted_visits_scaled"}

RECURSIVE KeepRows(_, _)
\* The subsequence of rows whose idx label is in keep.
KeepRows(rows, keep) ==
    IF rows = <<>> THEN <<>>
    ELSE IF Head(rows)["idx"].v \in keep
         THEN <<Head(rows)>> \o KeepRows(Tail(rows), keep)
         ELSE KeepRows(Tail(rows), keep)

\* load_data's body: coerce three columns, drop rows missing a required value.
load_data(sheet, cols) ==
    LET raw == ReadExcel(sheet, cols)
        co == [i \in DOMAIN raw.rows |-> CoerceRow(raw.rows[i])]
        keep == { co[i]["idx"].v : i \in { j \in DOMAIN co :
                      \A c \in DropnaSubset : ~IsNaN(co[j][c]) } }
    IN [obj |-> "cache", cols |-> cols, rows |-> KeepRows(co, keep)]

VARIABLES
    cache,              \* st.cache_data's store for load_data: <<>> or <<frame>>
    cluster_options,    \* line 28
    selected_clusters,  \* line 29
    income_options,     \* line 33
    selected_income,    \* line 34
    gap_min,            \* line 37
    gap_max,            \* line 37
    gap_range,          \* line 38, <<lo, hi>>
    df,                 \* the object named df after line 39 (the Filtered View)
    metrics,            \* lines 49-51
    highlight_df,       \* lines 116, 126
    table,              \* the rows st.dataframe shows, line 138
    csv,                \* the rows of the download, line 144
    error               \* 0, or the line that raised

vars == <<cache, cluster_options, selected_clusters, income_options,
          selected_income, gap_min, gap_max, gap_range, df, metrics,
          highlight_df, table, csv, error>>

\* A script variable that no statement has assigned yet.
NoFrame == [obj |-> "unset", cols |-> {}, rows |-> <<>>]
NoMetrics == [total_actual |-> 0, total_predicted |-> 0, average_gap |-> NaN]

\* st.cache_data hands every caller its own copy of the stored value.
CachedCopy(frame) == [frame EXCEPT !.obj = "copy"]

\* frame[mask]: a new object holding the rows whose label is in keep.
BoolIndex(frame, keep) ==
    [obj |-> "new", cols |-> frame.cols, rows |-> KeepRows(frame.rows, keep)]

Labels(frame, rowset) == { r["idx"].v : r \in rowset }

\* sorted(df['cluster'].dropna().unique())
ClusterOptions(frame) ==
    { r["cluster"].v : r \in { q \in Range(frame.rows) : ~IsNaN(q["cluster"]) } }

\* df['cluster'].isin(selected): a missing cluster is in no selection.
ClusterIsin(r, selected) == ~IsNaN(r["cluster"]) /\ r["cluster"].v \in selected

\* str(g) / astype(str) on an income_group value.
AsStr(g) == g[2]

\* [str(g) for g in df['income_group'].dropna().unique()]
IncomeOptions(frame) ==
    { AsStr(r["income_group"]) :
        r \in { q \in Range(frame.rows) : q["income_group"][1] # "nan" } }

\* df['income_group'].astype(str).isin(selected)
IncomeIsin(r, selected) == AsStr(r["income_group"]) \in selected

SetMin(S) == CHOOSE x \in S : \A y \in S : x <= y
SetMax(S) == CHOOSE x \in S : \A y \in S : x >= y

Present(frame, col) == { r[col].v : r \in { q \in Range(frame.rows) : ~IsNaN(q[col]) } }

\* Series.min() / .max(): missing values are skipped; NaN when nothing is left.
SeriesMin(frame, col) ==
    IF Present(frame, col) = {} THEN NaN ELSE Num(SetMin(Present(frame, col)))
SeriesMax(frame, col) ==
    IF Present(frame, col) = {} THEN NaN ELSE Num(SetMax(Present(frame, col)))

\* int(x) on a float: truncation toward zero, in whole units.
PyInt(x) == IF x >= 0 THEN x \div Scale ELSE -((-x) \div Scale)

\* The bounds read from the frame load_data returned, before any filter.
BoundsFrameWhole(loaded, filtered) == loaded

\* The frame line 37 reads its bounds from: df as the two filters left it.
BoundsFrame(loaded, filtered) == filtered

\* Handle positions tried besides the two ends of the slider.
SliderStops == {-SegmentThreshold, 0, SegmentThreshold}

\* A two-handle integer slider: lo <= hi, both within [lo0, hi0].
SliderValues(lo0, hi0) ==
    LET stops == { x \in SliderStops \cup {lo0, hi0} : lo0 <= x /\ x <= hi0 }
    IN { p \in stops \X stops : p[1] <= p[2] }

\* The range filter comparing the truncated gap, as the bounds are.
GapInRangeTruncated(r, lo, hi) ==
    /\ ~IsNaN(r["visits_gap_scaled"])
    /\ PyInt(r["visits_gap_scaled"].v) >= lo
    /\ PyInt(r["visits_gap_scaled"].v) <= hi

\* The range filter written as ~(gap < lo) & ~(gap > hi): NaN passes.
GapInRangeNegated(r, lo, hi) ==
    \/ IsNaN(r["visits_gap_scaled"])
    \/ /\ r["visits_gap_scaled"].v >= lo * Scale
       /\ r["visits_gap_scaled"].v <= hi * Scale

\* (gap >= lo) & (gap <= hi): a comparison with NaN is False.
GapInRange(r, lo, hi) ==
    /\ ~IsNaN(r["visits_gap_scaled"])
    /\ r["visits_gap_scaled"].v >= lo * Scale
    /\ r["visits_gap_scaled"].v <= hi * Scale

RECURSIVE SumCol(_, _)
\* Series.sum(): missing values count as 0.
SumCol(rows, col) ==
    IF rows = <<>> THEN 0
    ELSE (IF IsNaN(Head(rows)[col]) THEN 0 ELSE Head(rows)[col].v)
         + SumCol(Tail(rows), col)

\* round(sum / n, 1), in tenths, halves to the even neighbour.
Round1(sum, n) ==
    LET den == 10 * n
        fl == sum \div den
        rem == sum - fl * den
    IN IF 2 * rem < den THEN fl
       ELSE IF 2 * rem > den THEN fl + 1
       ELSE IF fl % 2 = 0 THEN fl ELSE fl + 1

\* Series.mean(): NaN over no values.
MeanRounded(frame, col) ==
    IF Present(frame, col) = {} THEN NaN
    ELSE Num(Round1(SumCol(frame.rows, col), Cardinality(
             { i \in DOMAIN frame.rows : ~IsNaN(frame.rows[i][col]) })))

\* Lines 49-51.
Summary(frame) ==
    [total_actual |-> PyInt(SumCol(frame.rows, "visit_count")),
     total_predicted |-> PyInt(SumCol(frame.rows, "huff_predicted_visits_scaled")),
     average_gap |-> MeanRounded(frame, "visits_gap_scaled")]

Abs(x) == IF x < 0 THEN -x ELSE x

\* Series.abs(): NaN stays NaN.
AbsCell(c) == IF IsNaN(c) THEN c ELSE Num(Abs(c.v))

\* Line 115 assigning the absolute value back to the gap column.
AbsGapColumnOverwrite == "visits_gap_scaled"

\* The column line 115 assigns to.
AbsGapColumn == "abs_gap"

\* frame[col] = f(frame[src]) in place: the same object gains (or overwrites)
\* the column.
AssignAbs(frame, col, src) ==
    [frame EXCEPT !.cols = @ \cup {col},
                  !.rows = [i \in DOMAIN @ |->
                      (col :> AbsCell(@[i][src])) @@ @[i]]]

Injections(n) == { f \in [1..n -> 1..n] : \A i, j \in 1..n : f[i] = f[j] => i = j }

\* Two adjacent rows are in descending order of col, missing values last.
DescOrdered(a, b, col) == IsNaN(b[col]) \/ (~IsNaN(a[col]) /\ a[col].v >= b[col].v)

\* frame.sort_values(col, ascending=False) with the default kind='quicksort',
\* which is not a stable sort: every arrangement of the rows that is
\* descending in col is a possible result.
SortValuesDesc(frame, col) ==
    LET n == Len(frame.rows)
        arrangements == { [i \in 1..n |-> frame.rows[f[i]]] : f \in Injections(n) }
    IN { [obj |-> "new", cols |-> frame.cols, rows |-> a] :
           a \in { b \in arrangements :
                     \A i \in 1..(n - 1) : DescOrdered(b[i], b[i + 1], col) } }

\* The classifier with inclusive thresholds.
categorize_gap_inclusive(row) ==
    IF ~IsNaN(row["visits_gap_scaled"])
          /\ row["visits_gap_scaled"].v >= SegmentThreshold * Scale
    THEN "Strong Performer"
    ELSE IF ~IsNaN(row["visits_gap_scaled"])
               /\ row["visits_gap_scaled"].v <= -SegmentThreshold * Scale
         THEN "Opportunity Area"
         ELSE "On Target"

\* Lines 118-124.
categorize_gap(row) ==
    IF ~IsNaN(row["visits_gap_scaled"])
          /\ row["visits_gap_scaled"].v > SegmentThreshold * Scale
    THEN "Strong Performer"
    ELSE IF ~IsNaN(row["visits_gap_scaled"])
               /\ row["visits_gap_scaled"].v < -SegmentThreshold * Scale
         THEN "Opportunity Area"
         ELSE "On Target"

\* Line 126: highlight_df['Performance Segment'] = highlight_df.apply(...).
ApplySegment(frame) ==
    [frame EXCEPT !.cols = @ \cup {"Performance Segment"},
                  !.rows = [i \in DOMAIN @ |->
                      ("Performance Segment" :> categorize_gap(@[i])) @@ @[i]]]

\* Lines 131-135.
table_cols_segmented ==
    {"location_name", "visit_count", "huff_predicted_visits_scaled",
     "visits_gap_scaled", "Performance Segment", "cluster", "income_group",
     "latitude", "longitude"}

\* frame[list of columns]: a new object with those columns (and the index).
Project(frame, cols) ==
    [obj |-> "new", cols |-> cols,
     rows |-> [i \in DOMAIN frame.rows |-> Restrict(frame.rows[i], cols \cup {"idx"})]]

\* to_csv(index=False): the rows in frame order, without the index.
ToCsv(frame) == [i \in DOMAIN frame.rows |-> Restrict(frame.rows[i], frame.cols)]

\* The rows the download starts from (line 144): highlight_df as it stands.
ExportSource(highlighted) == highlighted

\* An in-place assignment reaches the cached object only through a frame
\* that is that object.
WriteThrough(store, frame) == IF frame.obj = "cache" THEN <<frame>> ELSE store

\* Lines where a run over this view can stop after the filters: the scatter
\* plot needs a cluster column (107), the table needs both optional columns
\* (138), and what the map and the segment column do with an empty view is
\* left to the libraries (0 or 76).
DownstreamErrors(view) ==
    LET cols == IF "cluster" \notin view.cols THEN 107
                ELSE IF "income_group" \notin view.cols THEN 138 ELSE 0
    IN IF view.rows = <<>> THEN {76, cols} ELSE {cols}

Init ==
    /\ cache = <<>>
    /\ cluster_options = {} /\ selected_clusters = {}
    /\ income_options = {} /\ selected_income = {}
    /\ gap_min = 0 /\ gap_max = 0 /\ gap_range = <<0, 0>>
    /\ df = NoFrame /\ metrics = NoMetrics /\ highlight_df = NoFrame
    /\ table = <<>> /\ csv = <<>> /\ error = 0

\* What one run leaves behind.
Leaves(store, d, m, h, t, x, e) ==
    /\ cache' = store /\ df' = d /\ metrics' = m /\ highlight_df' = h
    /\ table' = t /\ csv' = x /\ error' = e

\* Lines 41-147, once df is the Filtered View.
Render(data, view) ==
    \E e \in DownstreamErrors(view) :
       IF e \in {76, 107}
       THEN Leaves(<<data>>, view, Summary(view), NoFrame, <<>>, <<>>, e)
       ELSE LET withAbs == AssignAbs(view, AbsGapColumn, "visits_gap_scaled")
            IN \E sorted \in SortValuesDesc(withAbs, "abs_gap") :
                 LET labelled == ApplySegment(sorted)
                     store == WriteThrough(WriteThrough(<<data>>, withAbs), labelled)
                 IN IF e = 138
                    THEN Leaves(store, withAbs, Summary(view), labelled, <<>>, <<>>, e)
                    ELSE \E shown \in SortValuesDesc(
                                 Project(labelled, table_cols_segmented),
                                 "visits_gap_scaled") :
                           Leaves(store, withAbs, Summary(view), labelled, shown.rows,
                                  ToCsv(Project(ExportSource(labelled),
                                                table_cols_segmented)), e)

\* One execution of the script over the value load_data() returns.  On the
\* first execution of a session every widget returns its default.
Script(data, first) ==
    LET df0 == CachedCopy(data)
        hasC == "cluster" \in df0.cols
        copts == IF hasC THEN ClusterOptions(df0) ELSE {}
    IN \E selC \in (IF first THEN {copts} ELSE SUBSET copts) :
       LET df1 == IF hasC
                  THEN BoolIndex(df0, Labels(df0,
                          { r \in Range(df0.rows) : ClusterIsin(r, selC) }))
                  ELSE df0
           hasI == "income_group" \in df1.cols
           iopts == IF hasI THEN IncomeOptions(df1) ELSE {}
       IN \E selI \in (IF first THEN {iopts} ELSE SUBSET iopts) :
          LET df2 == IF hasI
                     THEN BoolIndex(df1, Labels(df1,
                             { r \in Range(df1.rows) : IncomeIsin(r, selI) }))
                     ELSE df1
              mn == SeriesMin(BoundsFrame(df0, df2), "visits_gap_scaled")
              mx == SeriesMax(BoundsFrame(df0, df2), "visits_gap_scaled")
          IN /\ cluster_options' = copts /\ selected_clusters' = selC
             /\ income_options' = iopts /\ selected_income' = selI
             /\ IF IsNaN(mn)
                THEN \* int(nan) raises ValueError
                     /\ gap_min' = 0 /\ gap_max' = 0 /\ gap_range' = <<0, 0>>
                     /\ Leaves(<<data>>, df2, NoMetrics, NoFrame, <<>>, <<>>, 37)
                ELSE /\ gap_min' = PyInt(mn.v) /\ gap_max' = PyInt(mx.v)
                     /\ \E rng \in (IF first THEN {<<PyInt(mn.v), PyInt(mx.v)>>}
                                    ELSE SliderValues(PyInt(mn.v), PyInt(mx.v))) :
                          /\ gap_range' = rng
                          /\ Render(data, BoolIndex(df2, Labels(df2,
                                { r \in Range(df2.rows) :
                                    GapInRange(r, rng[1], rng[2]) })))

\* The first execution: load_data misses the cache and reads the spreadsheet.
FirstRun ==
    /\ cache = <<>>
    /\ \E sheet \in Sheets, cols \in ColumnSets : Script(load_data(sheet, cols), TRUE)

\* Every later execution, after a widget changed: load_data hits the cache.
Rerun ==
    /\ cache # <<>>
    /\ Script(cache[1], FALSE)

Next == FirstRun \/ Rerun

Spec == Init /\ [][Next]_vars

(***************************************************************************)
(* Vocabulary of the properties.                                           *)
(***************************************************************************)
Ran == cache # <<>>
Dataset == cache[1]
\* Line 39 was executed: the Filtered View exists.
Filtered == Ran /\ error # 37
\* The run reached the end of the script.
Completed == Ran /\ error = 0
\* Lines 116-126 were executed: the labelled view exists.
Labelled == Ran /\ error \in {0, 138}
HasCluster == "cluster" \in Dataset.cols
HasIncome == "income_group" \in Dataset.cols
Gap(r) == r["visits_gap_scaled"]
\* The Filtered View's rows, on the Dataset's columns.
ViewRows == [i \in DOMAIN df.rows |-> Restrict(df.rows[i], Dataset.cols \cup {"idx"})]
InSelectedCluster(r) == r["cluster"].k = "num" /\ r["cluster"].v \in selected_clusters
InSelectedIncome(r) == r["income_group"][2] \in selected_income
\* The rows of the Dataset that pass the two categorical filters.
CategoricalPass ==
    { r \in Range(Dataset.rows) :
        /\ HasCluster => InSelectedCluster(r)
        /\ HasIncome => InSelectedIncome(r) }
KnownGaps(rowset) == { Gap(r).v : r \in { q \in rowset : Gap(q).k = "num" } }
Least(S) == CHOOSE x \in S : \A y \in S : x <= y
Greatest(S) == CHOOSE x \in S : \A y \in S : x >= y
\* n is x (in hundredths) with its fractional part cut off.
IsTruncation(n, x) ==
    \/ x >= 0 /\ n * Scale <= x /\ x < (n + 1) * Scale
    \/ x < 0 /\ (n - 1) * Scale < x /\ x <= n * Scale
\* n is the greatest whole number not above x (in hundredths).
IsFloor(n, x) == n * Scale <= x /\ x < (n + 1) * Scale
SelectAll ==
    /\ selected_clusters = cluster_options
    /\ selected_income = income_options
    /\ gap_range = <<gap_min, gap_max>>
TableOnCsvColumns == [i \in DOMAIN table |-> Restrict(table[i], table_cols_segmented)]

\* C1: whenever the user has deselected every offered cluster value or every
\* offered income-group value, the run completes without an error, the
\* Filtered View is empty, both totals are 0 and the average gap is not NaN.
C1_EmptySelectionDegradesGracefully ==
    (Ran /\ ( (cluster_options # {} /\ selected_clusters = {})
              \/ (income_options # {} /\ selected_income = {}) ))
    => /\ error = 0
       /\ df.rows = <<>>
       /\ metrics.total_actual = 0 /\ metrics.total_predicted = 0
       /\ ~IsNaN(metrics.average_gap)

\* C2: with every offered cluster and income value selected and the slider at
\* its full default range, the Filtered View is the loaded Dataset, row for
\* row and in the same order.
C2_SelectAllShowsWholeDataset ==
    (Filtered /\ SelectAll) => ViewRows = Dataset.rows

\* C3: a Dataset row is in the Filtered View iff its cluster is selected (when
\* the column exists), the string form of its income_group is selected (when
\* the column exists) and lo <= gap <= hi on the untruncated gap; the view
\* holds nothing else.
C3_ViewIsConjunctionOfFilters ==
    Filtered =>
      Range(ViewRows) =
        { r \in CategoricalPass :
            /\ Gap(r).k = "num"
            /\ gap_range[1] * Scale <= Gap(r).v
            /\ Gap(r).v <= gap_range[2] * Scale }

\* C3 witness: a run over two rows with both optional columns in which the
\* cluster selection is partial and exactly one row is shown.
C3_Witness ==
    /\ Filtered /\ HasCluster /\ HasIncome
    /\ Len(Dataset.rows) = 2 /\ Len(df.rows) = 1
    /\ selected_clusters # cluster_options /\ selected_clusters # {}

C5_DefaultBoundsAreFloors ==
    Filtered =>
      /\ IsFloor(gap_min, Least(KnownGaps(CategoricalPass)))
      /\ IsFloor(gap_max, Greatest(KnownGaps(CategoricalPass)))
      /\ gap_min * Scale <= Least(KnownGaps(CategoricalPass))

\* C6: the download holds the rows of the displayed table, in the table's
\* order, and these are the rows of the current Filtered View.
C6_ExportMatchesTable ==
    Completed =>
      /\ csv = TableOnCsvColumns
      /\ { r["idx"] : r \in Range(table) } = { r["idx"] : r \in Range(df.rows) }

\* C7: every row of the Filtered View gets exactly one label, decided by its
\* gap alone: Strong Performer iff gap > 20, Opportunity Area iff gap < -20,
\* On Target otherwise.
C7_SegmentByThreshold ==
    Labelled =>
      /\ \A r \in Range(df.rows) :
            Cardinality({ i \in DOMAIN highlight_df.rows :
                            highlight_df.rows[i]["idx"] = r["idx"] }) = 1
      /\ \A r \in Range(highlight_df.rows) \cup Range(table) :
            /\ (r["Performance Segment"] = "Strong Performer") <=> (Gap(r).v > 20 * Scale)
            /\ (r["Performance Segment"] = "Opportunity Area") <=> (Gap(r).v < -20 * Scale)
            /\ (r["Performance Segment"] = "On Target")
                  <=> (-20 * Scale <= Gap(r).v /\ Gap(r).v <= 20 * Scale)

\* C7 witness: the table shows a store whose gap is 20.01, labelled Strong
\* Performer.
C7_Witness ==
    /\ Completed
    /\ \E r \in Range(table) :
          Gap(r).v = 2001 /\ r["Performance Segment"] = "Strong Performer"

\* C8: the displayed table is in descending gap order and rows with the same
\* gap keep the order they have in the loaded Dataset.
C8_TableSortedAndStable ==
    Completed =>
      \A i, j \in DOMAIN table :
         i < j => \/ Gap(table[i]).v > Gap(table[j]).v
                  \/ /\ Gap(table[i]).v = Gap(table[j]).v
                     /\ table[i]["idx"].v < table[j]["idx"].v

\* Every row of a derived view carries the three measurements of the Dataset
\* row with the same index label, and the Dataset has no derived column.
MeasurementsKept ==
    Ran =>
      /\ Dataset.cols \cap {"abs_gap", "Performance Segment"} = {}
      /\ \A v \in Range(df.rows) \cup Range(highlight_df.rows) \cup Range(table) :
            \E r \in Range(Dataset.rows) :
               /\ r["idx"] = v["idx"]
               /\ \A c \in {"visit_count", "huff_predicted_visits_scaled",
                            "visits_gap_scaled"} : r[c] = v[c]
      /\ \A i \in DOMAIN csv :
            \A c \in {"visit_count", "huff_predicted_visits_scaled",
                      "visits_gap_scaled"} : csv[i][c] = highlight_df.rows[i][c]

\* C9: no run changes the cached Dataset (rows, order, columns), and every row
\* of every derived view carries the measurements of the Dataset row it came
\* from.
C9_CachedDatasetUntouched ==
    [][(Ran => cache' = cache) /\ MeasurementsKept']_vars

\* C9 witness: a completed run that added abs_gap to df and Performance
\* Segment to highlight_df and shows a row with a negative gap.
C9_Witness ==
    /\ Completed
    /\ "abs_gap" \in df.cols /\ "Performance Segment" \in highlight_df.cols
    /\ \E r \in Range(table) : Gap(r).v < 0

\* C10: no row of the Filtered View has a missing gap or, when the column
\* exists, a missing cluster; the classifier never sees a missing gap.
C10_NoMissingGapOrClusterInView ==
    Filtered =>
      /\ \A r \in Range(df.rows) :
            /\ Gap(r).k = "num"
            /\ HasCluster => r["cluster"].k = "num"
      /\ \A r \in Range(highlight_df.rows) : Gap(r).k = "num"

\* C10 witness: a run completed over a Dataset in which a row with a missing
\* gap passed the cluster and income selections, and the view is not empty.
C10_Witness ==
    /\ Completed /\ HasCluster /\ df.rows # <<>>
    /\ \E r \in CategoricalPass : Gap(r).k = "nan"

====
